---- MODULE Spec2Model ----
(***************************************************************************)
(* A model of src/Balls.py: the Body / Ball / Platform contact primitives  *)
(* and Simulation.physics_step.                                            *)
(*                                                                         *)
(* Numbers.  The program computes with floats; the model computes with     *)
(* exact rationals <<n, d>> (d > 0, lowest terms), i.e. with the real      *)
(* numbers the floats approximate.  A square root is taken only of a       *)
(* perfect square: the actions are guarded so that every root a call takes *)
(* is rational, and the runs in which a root would be irrational are not   *)
(* explored.  Vectors (pygame Vector2) are pairs <<x, y>> of rationals.    *)
(*                                                                         *)
(* Rounding.  A float the program holds may differ from the real value by  *)
(* rounding (1/600 is no float), and how it is rounded depends on the      *)
(* Vector2 in use.  Each body records which coordinates of pos and vel are *)
(* rounded, and the actions are guarded so that no test of the code (wall, *)
(* floor, overlap, platform) stands exactly at its threshold on a rounded  *)
(* value: the runs in which rounding would decide a branch are not         *)
(* explored.                                                               *)
(***************************************************************************)
EXTENDS Integers, Sequences, FiniteSets

\* ------------------------------------------------------------ rationals

AbsInt(i) == IF i < 0 THEN -i ELSE i

RECURSIVE GCD(_, _)
GCD(a, b) == IF b = 0 THEN a ELSE GCD(b, a % b)

\* The rational n/d in lowest terms with a positive denominator.
Q(n, d) ==
    LET g == GCD(AbsInt(n), AbsInt(d))
        s == IF d < 0 THEN -1 ELSE 1
    IN  <<s * (n \div g), s * (d \div g)>>

I(n) == <<n, 1>>

Zero == I(0)
One == I(1)
Two == I(2)

Neg(a) == <<-a[1], a[2]>>

Add(a, b) ==
    LET g == GCD(a[2], b[2])
    IN  Q(a[1] * (b[2] \div g) + b[1] * (a[2] \div g), (a[2] \div g) * b[2])

Sub(a, b) == Add(a, Neg(b))

\* Cross-reduced before multiplying, so that no intermediate is larger than
\* the result.
Mul(a, b) ==
    LET g1 == GCD(AbsInt(a[1]), b[2])
        g2 == GCD(AbsInt(b[1]), a[2])
    IN  Q((a[1] \div g1) * (b[1] \div g2), (a[2] \div g2) * (b[2] \div g1))

\* b # 0: every division of the program that the model reaches has a
\* non-zero divisor (max(d, 1e-9), and mass sums of positive masses).
Div(a, b) == Mul(a, IF b[1] < 0 THEN <<-b[2], -b[1]>> ELSE <<b[2], b[1]>>)

AbsQ(a) == <<AbsInt(a[1]), a[2]>>

Floor(a) == a[1] \div a[2]

\* a < b, by comparing the continued fractions: no product is formed.
RECURSIVE Lt(_, _)
Lt(a, b) ==
    LET fa == Floor(a)
        fb == Floor(b)
        ra == a[1] - fa * a[2]
        rb == b[1] - fb * b[2]
    IN  IF fa # fb THEN fa < fb
        ELSE IF rb = 0 THEN FALSE
        ELSE IF ra = 0 THEN TRUE
        ELSE Lt(<<b[2], rb>>, <<a[2], ra>>)

Gt(a, b) == Lt(b, a)
Le(a, b) == ~Lt(b, a)
Ge(a, b) == ~Lt(a, b)

MaxQ(a, b) == IF Lt(a, b) THEN b ELSE a

\* The integer square root of n >= 0 (the largest r with r * r <= n), by
\* bisection of lo..hi.
RECURSIVE ISqrtFrom(_, _, _)
ISqrtFrom(n, lo, hi) ==
    IF lo >= hi THEN lo
    ELSE IF ((lo + hi + 1) \div 2) * ((lo + hi + 1) \div 2) <= n
    THEN ISqrtFrom(n, (lo + hi + 1) \div 2, hi)
    ELSE ISqrtFrom(n, lo, ((lo + hi + 1) \div 2) - 1)

ISqrt(n) == ISqrtFrom(n, 0, IF n < 46340 THEN n ELSE 46340)

IsSquareInt(n) == ISqrt(n) * ISqrt(n) = n

\* a >= 0 is the square of a rational.
IsSquare(a) == IsSquareInt(a[1]) /\ IsSquareInt(a[2])

\* x ** 0.5 for a perfect square x >= 0.
Sqrt(a) == <<ISqrt(a[1]), ISqrt(a[2])>>

\* A float holds q exactly: its denominator is a power of two.
RECURSIVE IsPow2(_)
IsPow2(n) == n = 1 \/ (n % 2 = 0 /\ IsPow2(n \div 2))

\* q is taken to be held exactly, as are the sums and products of a few
\* such numbers, when it is a dyadic fraction of at most 20 bits either way.
Dyadic(q) == IsPow2(q[2]) /\ q[2] <= 1048576 /\ AbsInt(q[1]) <= 1048576

\* The sum of the magnitudes of a sequence of numbers.
RECURSIVE SumAbs(_)
SumAbs(qs) == IF qs = <<>> THEN Zero ELSE Add(AbsQ(Head(qs)), SumAbs(Tail(qs)))

\* 2^e, and the binary order of magnitude of q > 0: the largest e in
\* -30..30 with 2^e <= q, and -31 below that.
Pow2(e) == IF e >= 0 THEN Q(2 ^ e, 1) ELSE Q(1, 2 ^ (0 - e))

RECURSIVE MagFrom(_, _, _)
MagFrom(q, lo, hi) ==
    IF lo >= hi THEN lo
    ELSE IF Le(Pow2((lo + hi + 1) \div 2), q)
    THEN MagFrom(q, (lo + hi + 1) \div 2, hi)
    ELSE MagFrom(q, lo, ((lo + hi + 1) \div 2) - 1)

Mag(q) == MagFrom(q, -31, 30)

\* The size of the operands qs of a computation; the error of a rounded
\* operand is not tied to its own size, and 1 stands for the scene's.
Scale(qs, rounded) == Add(SumAbs(qs), IF rounded THEN One ELSE Zero)

\* x >= 0 is less than about 2^-bits of y >= 0 (by orders of magnitude, so
\* that no product is formed).
Within(x, y, bits) ==
    x = Zero \/ (y # Zero /\ Mag(x) + bits <= Mag(y) + 1)

\* The comparison of a with b, both computed from the operands qs, may come
\* out in floats as it does not in the reals: an operand is not held exactly
\* (off), and a and b are equal or within about a millionth (2^-20) of the
\* operands' size.
Close(a, b, qs, off, rounded) ==
    /\ off
    /\ \/ a = b
       \/ Within(AbsQ(Sub(a, b)), Scale(qs, rounded), 20)

\* ------------------------------------------------------------ vectors

V2(x, y) == <<x, y>>

VAdd(u, v) == <<Add(u[1], v[1]), Add(u[2], v[2])>>
VSub(u, v) == <<Sub(u[1], v[1]), Sub(u[2], v[2])>>
VScale(u, k) == <<Mul(u[1], k), Mul(u[2], k)>>
VDiv(u, k) == <<Div(u[1], k), Div(u[2], k)>>
Dot(u, v) == Add(Mul(u[1], v[1]), Mul(u[2], v[2]))

\* u = <<a / L, b / L>> with L the least common denominator, and a = c * x,
\* b = c * y with c the common factor of a and b: its length is
\* c * sqrt(x^2 + y^2) / L.
LenDen(u) == (u[1][2] \div GCD(u[1][2], u[2][2])) * u[2][2]

LenCommon(u) ==
    IF u[1][1] = 0 /\ u[2][1] = 0 THEN 1
    ELSE GCD(AbsInt(u[1][1] * (LenDen(u) \div u[1][2])),
             AbsInt(u[2][1] * (LenDen(u) \div u[2][2])))

LenNum(u) ==
    LET x == (u[1][1] * (LenDen(u) \div u[1][2])) \div LenCommon(u)
        y == (u[2][1] * (LenDen(u) \div u[2][2])) \div LenCommon(u)
    IN  x * x + y * y

LengthExact(u) == IsSquareInt(LenNum(u))

Length(u) == Q(LenCommon(u) * ISqrt(LenNum(u)), LenDen(u))

distance_to(u, v) == Length(VSub(v, u))

\* ------------------------------------------------------------ bodies

\* An optional constructor argument that was not given (Python's None).
None == <<0, 0>>

\* Python's truth value of an optional number: None and 0 are both false.
Truthy(a) == a # None /\ a[1] # 0

\* Body.__init__.  A body is a record.  A plain Body has no radius, width or
\* height and a Ball no width or height: the record holds a zero there, and
\* the operators below never read it (a read of a missing attribute raises,
\* and is modelled as raising).  The colour is cosmetic and left out.  pos and vel hold the
\* real values; `rounded` marks, by coordinate, those the program's floats
\* have left by rounding (none at construction).
Body(pos, vel, mass, elasticity) ==
    [kind |-> "Body", fixed |-> FALSE, pos |-> pos, vel |-> vel, mass |-> mass,
     elasticity |-> IF Truthy(elasticity) THEN elasticity ELSE One,
     radius |-> Zero, width |-> Zero, height |-> Zero,
     rounded |-> [pos |-> <<FALSE, FALSE>>, vel |-> <<FALSE, FALSE>>]]

Ball(pos, vel, mass, radius, elasticity) ==
    [Body(pos, vel, mass, elasticity) EXCEPT !.kind = "Ball", !.radius = radius]

Platform(pos, dimensions, elasticity) ==
    [Body(pos, V2(Zero, Zero), I(-1), elasticity) EXCEPT
        !.kind = "Platform", !.fixed = TRUE,
        !.width = dimensions[1], !.height = dimensions[2]]

IsBall(b) == b.kind = "Ball"
IsPlatform(b) == b.kind = "Platform"

\* hasattr(b, "radius"); hasattr(b, "width") and hasattr(b, "height").
HasRadius(b) == IsBall(b)
HasSize(b) == IsPlatform(b)

\* Body.play_collision_sound: the observer is called with vel_change; the
\* model keeps the sequence of the magnitudes it was called with.
play_collision_sound(sounds, vel_change) == Append(sounds, vel_change)

\* The sound has an effect only for a non-zero magnitude.
SoundAudible(vel_change) == vel_change # Zero

\* The float of coordinate k of pos (of vel) may differ from the value held
\* here: it was rounded, or no float is that value.
PosOff(b, k) == b.rounded.pos[k] \/ ~Dyadic(b.pos[k])
VelOff(b, k) == b.rounded.vel[k] \/ ~Dyadic(b.vel[k])

\* pos[k] + vel[k] * time_step is rounded unless the velocity is an exact 0
\* or every operand is held exactly.
MovedOff(self, k, time_step) ==
    IF self.vel[k] = Zero /\ ~self.rounded.vel[k] THEN self.rounded.pos[k]
    ELSE PosOff(self, k) \/ VelOff(self, k) \/ ~Dyadic(time_step)

apply_vel(self, time_step) ==
    [self EXCEPT !.pos = VAdd(self.pos, VScale(self.vel, time_step)),
                 !.rounded.pos = <<MovedOff(self, 1, time_step),
                                   MovedOff(self, 2, time_step)>>]

\* Body.apply_gravity, which a plain Body and a Platform have: no test.
BodyApplyGravity(self, g, time_step) ==
    [self EXCEPT !.vel[2] = Sub(self.vel[2], Mul(g, time_step)),
                 !.rounded.vel[2] =
                     IF g = Zero THEN @
                     ELSE VelOff(self, 2) \/ ~Dyadic(g) \/ ~Dyadic(time_step)]

\* Ball.apply_gravity: only above the floor.
BallApplyGravity(self, g, time_step) ==
    IF Gt(self.pos[2], self.radius)
    THEN BodyApplyGravity(self, g, time_step)
    ELSE self

\* self.apply_gravity(g, time_step), by the class of self.
apply_gravity(self, g, time_step) ==
    IF IsBall(self) THEN BallApplyGravity(self, g, time_step)
    ELSE BodyApplyGravity(self, g, time_step)

\* The test of apply_gravity, where there is one, comes out the same in
\* floats as in the reals.
apply_gravity_exact(self) ==
    IsBall(self) =>
        ~Close(self.pos[2], self.radius, <<self.pos[2], self.radius>>,
               PosOff(self, 2) \/ ~Dyadic(self.radius), self.rounded.pos[2])

\* vel[k] * -elasticity is rounded unless the velocity is an exact 0 or both
\* factors are held exactly.
ReflectedOff(self, k) ==
    IF self.vel[k] = Zero /\ ~self.rounded.vel[k] THEN FALSE
    ELSE VelOff(self, k) \/ ~Dyadic(self.elasticity)

\* ------------------------------------------------------------ collide_walls

\* ke of the floor branch.
FloorKe(self, g) ==
    Sub(Mul(self.vel[2], self.vel[2]),
        Mul(Mul(Two, g), Sub(self.radius, self.pos[2])))

\* The left / right wall test with the ball b1 it leaves on contact.
WallsXTo(self, b1, hitLeft, hitRight) ==
    IF hitLeft
    THEN [b |-> b1, sounds |-> <<>>, hit |-> TRUE, contacts |-> 1]
    ELSE IF hitRight
    THEN [b |-> b1,
          sounds |-> play_collision_sound(<<>>, Length(VSub(b1.vel, self.vel))),
          hit |-> TRUE, contacts |-> 1]
    ELSE [b |-> self, sounds |-> <<>>, hit |-> FALSE, contacts |-> 0]

HitLeft(self) == Lt(self.pos[1], self.radius)
HitRight(self, room_width) == Gt(self.pos[1], Sub(room_width, self.radius))

\* The state after the left / right wall test.
WallsX(self, room_width) ==
    WallsXTo(self,
             [self EXCEPT !.vel[1] = Mul(self.vel[1], Neg(self.elasticity)),
                          !.pos[1] = IF HitLeft(self) THEN self.radius
                                     ELSE Sub(room_width, self.radius),
                          !.rounded.vel[1] = ReflectedOff(self, 1),
                          !.rounded.pos[1] =
                              /\ ~HitLeft(self)
                              /\ ~Dyadic(room_width) \/ ~Dyadic(self.radius)],
             HitLeft(self), HitRight(self, room_width))

\* A slip in the floor test: <= for <.
FloorHit_Inclusive(b) == Le(b.pos[2], b.radius) /\ Le(b.vel[2], Zero)

\* The test of the floor branch.
FloorHit(b) == Lt(b.pos[2], b.radius) /\ Lt(b.vel[2], Zero)

\* A slip in the floor branch: the velocity is reconstructed and not reflected.
FloorVy_NoReflect(b, g) == Neg(Sqrt(AbsQ(FloorKe(b, g))))

\* The velocity the floor branch leaves: -(abs(ke) ** 0.5), then reflected.
FloorVy(b, g) == Mul(Neg(Sqrt(AbsQ(FloorKe(b, g)))), Neg(b.elasticity))

\* The velocity of the floor branch is rounded unless every operand and the
\* result are held exactly.
FloorOff(b, g) ==
    \/ VelOff(b, 2) \/ ~Dyadic(b.elasticity) \/ ~Dyadic(FloorVy(b, g))
    \/ g # Zero /\ (PosOff(b, 2) \/ ~Dyadic(g) \/ ~Dyadic(b.radius))

\* The state after the floor test, from the state s after the wall test.
WallsY(s, g) ==
    IF FloorHit(s.b)
    THEN [s EXCEPT !.b.vel[2] = FloorVy(s.b, g), !.b.pos[2] = s.b.radius,
                   !.b.rounded.vel[2] = FloorOff(s.b, g),
                   !.b.rounded.pos[2] = FALSE,
                   !.hit = TRUE, !.contacts = s.contacts + 1]
    ELSE s

\* The end of collide_walls: the observer is called if anything was hit.
WallsEnd(self, s) ==
    [ret |-> s.hit, self |-> s.b, contacts |-> s.contacts,
     sounds |-> IF s.hit
                THEN play_collision_sound(s.sounds, Length(VSub(s.b.vel, self.vel)))
                ELSE s.sounds]

\* Ball.collide_walls: [ret, self, sounds, contacts], contacts the number of
\* walls (left, right, floor) whose branch was taken.
collide_walls(self, room_width, room_height, g) ==
    WallsEnd(self, WallsY(WallsX(self, room_width), g))

\* ke of the floor branch is a difference that cancels to less than about a
\* thousandth (2^-10) of its terms, on operands not held exactly: its
\* rounding error is not negligible.
KeRounded(b, g) ==
    /\ VelOff(b, 2) \/ (g # Zero /\ (PosOff(b, 2) \/ ~Dyadic(g) \/ ~Dyadic(b.radius)))
    /\ Within(AbsQ(FloorKe(b, g)),
              Add(Mul(b.vel[2], b.vel[2]),
                  AbsQ(Mul(Mul(Two, g), Sub(b.radius, b.pos[2])))),
              10)

WallsExactFrom(self, s1, g) ==
    /\ FloorHit(s1.b) =>
           IsSquare(AbsQ(FloorKe(s1.b, g))) /\ ~KeRounded(s1.b, g)
    /\ (s1.hit \/ FloorHit(s1.b)) =>
           LengthExact(VSub(WallsY(s1, g).b.vel, self.vel))

\* The left / right wall test is decided by rounding: pos.x stands on (or
\* within the margin of) the threshold the test reaches, and pos.x, or the
\* difference room_width - radius, is not held exactly.
WallsXRounded(self, room_width) ==
    \/ Close(self.pos[1], self.radius, <<self.pos[1], self.radius>>,
             PosOff(self, 1) \/ ~Dyadic(self.radius), self.rounded.pos[1])
    \/ /\ ~HitLeft(self)
       /\ Close(self.pos[1], Sub(room_width, self.radius),
                <<self.pos[1], room_width, self.radius>>,
                PosOff(self, 1) \/ ~Dyadic(room_width) \/ ~Dyadic(self.radius),
                self.rounded.pos[1])

\* The two halves of the floor test `pos.y < radius and vel.y < 0`.
FloorPosClose(b) ==
    Close(b.pos[2], b.radius, <<b.pos[2], b.radius>>,
          PosOff(b, 2) \/ ~Dyadic(b.radius), b.rounded.pos[2])

FloorVelClose(b) ==
    Close(b.vel[2], Zero, <<b.vel[2]>>, VelOff(b, 2), b.rounded.vel[2])

\* The floor test is decided by rounding.
FloorRounded(b) ==
    \/ FloorPosClose(b) /\ (Lt(b.vel[2], Zero) \/ FloorVelClose(b))
    \/ Lt(b.pos[2], b.radius) /\ FloorVelClose(b)

\* Every square root collide_walls takes of this state is rational, and each
\* of its tests comes out the same in floats as in the reals.
collide_walls_exact(self, room_width, room_height, g) ==
    /\ ~WallsXRounded(self, room_width)
    /\ ~FloorRounded(self)
    /\ WallsExactFrom(self, WallsX(self, room_width), g)

\* ------------------------------------------------------------ collide_body

\* The literal 0.000000001 of the contact normal.
Eps == Q(1, 1000000000)

Overlap(self, other) ==
    Lt(distance_to(self.pos, other.pos), Add(self.radius, other.radius))

\* n of the Ball - Ball branch, d the distance of the centers.
ContactNormal(self, other, d) == VDiv(VSub(other.pos, self.pos), MaxQ(d, Eps))

\* p of the Ball - Ball branch.
Impulse(self, other, n) ==
    Div(Mul(Two, Sub(Dot(self.vel, n), Dot(other.vel, n))),
        Add(self.mass, other.mass))

\* A slip in the positional correction: self is moved by its own share of
\* the mass, not by the other's.
PushSelf_OwnMass(self, other, n, d) ==
    VDiv(VScale(VScale(n, Sub(Add(self.radius, other.radius), d)), self.mass),
         Add(self.mass, other.mass))

\* "move balls to be externally tangent": how far self and other are moved.
PushSelf(self, other, n, d) ==
    VDiv(VScale(VScale(n, Sub(Add(self.radius, other.radius), d)), other.mass),
         Add(self.mass, other.mass))

PushOther(self, other, n, d) ==
    VDiv(VScale(VScale(n, Sub(Add(self.radius, other.radius), d)), self.mass),
         Add(self.mass, other.mass))

\* Along an axis on which the centers agree exactly, n is an exact 0 and the
\* contact leaves b's position and velocity as they were; along the other
\* they are rounded.
AxisKept(self, other, k) ==
    self.pos[k] = other.pos[k] /\ ~PosOff(self, k) /\ ~PosOff(other, k)

ContactOff(b, self, other) ==
    [pos |-> [k \in 1..2 |-> IF AxisKept(self, other, k) THEN b.rounded.pos[k] ELSE TRUE],
     vel |-> [k \in 1..2 |-> IF AxisKept(self, other, k) THEN b.rounded.vel[k] ELSE TRUE]]

\* The end of the Ball - Ball branch, with the new velocities v1 and v2.
BallBallEnd(self, other, n, d, v1, v2) ==
    [ret |-> TRUE, raised |-> FALSE,
     self |-> [self EXCEPT !.vel = v1,
                           !.pos = VSub(self.pos, PushSelf(self, other, n, d)),
                           !.rounded = ContactOff(self, self, other)],
     other |-> [other EXCEPT !.vel = v2,
                             !.pos = VAdd(other.pos, PushOther(self, other, n, d)),
                             !.rounded = ContactOff(other, self, other)],
     sounds |-> play_collision_sound(<<>>,
                   MaxQ(Length(VSub(v1, self.vel)), Length(VSub(v2, other.vel))))]

BallBallVel(self, other, n, d, p) ==
    BallBallEnd(self, other, n, d,
        VSub(self.vel, VScale(VScale(n, Mul(p, other.mass)), self.elasticity)),
        VAdd(other.vel, VScale(VScale(n, Mul(p, self.mass)), other.elasticity)))

BallBallNormal(self, other, n, d) ==
    BallBallVel(self, other, n, d, Impulse(self, other, n))

BallBallAt(self, other, d) == BallBallNormal(self, other, ContactNormal(self, other, d), d)

\* The Ball - Ball branch, taken when the two overlap.
BallBall(self, other) == BallBallAt(self, other, distance_to(self.pos, other.pos))

\* The contact test of the Ball - Platform branch.
PlatformContact(ball, platform) ==
    /\ Lt(Sub(platform.pos[1], ball.radius), ball.pos[1])
    /\ Lt(ball.pos[1], Add(Add(platform.pos[1], platform.width), ball.radius))
    /\ Lt(Sub(platform.pos[2], ball.radius), ball.pos[2])
    /\ Lt(ball.pos[2], Add(Add(platform.pos[2], platform.height), ball.radius))

\* The ball after a Ball - Platform contact.
PlatformBounce(ball, platform) ==
    [ball EXCEPT
        !.pos[2] = IF Gt(ball.vel[2], Zero)
                   THEN Sub(platform.pos[2], ball.radius)
                   ELSE Add(Add(platform.pos[2], platform.height), ball.radius),
        !.vel[2] = Mul(ball.vel[2], Neg(ball.elasticity)),
        !.rounded.pos[2] = \/ ~Dyadic(platform.pos[2]) \/ ~Dyadic(ball.radius)
                           \/ ~Dyadic(platform.height),
        !.rounded.vel[2] = ReflectedOff(ball, 2)]

NoContact(self, other) ==
    [ret |-> FALSE, raised |-> FALSE, self |-> self, other |-> other, sounds |-> <<>>]

\* An AttributeError left the call before anything was changed.
Raised(self, other) == [NoContact(self, other) EXCEPT !.raised = TRUE]

\* The first comparison of the chained test of line 79, the only one made
\* before platform.width is read.
PlatformLeftOf(ball, platform) ==
    Lt(Sub(platform.pos[1], ball.radius), ball.pos[1])

\* The roles the else branch gives the two.
BallOf(self, other) == IF IsBall(self) THEN self ELSE other
PlatformOf(self, other) == IF IsPlatform(self) THEN self ELSE other

\* The else branch of collide_body, with the roles it gives the two.  The
\* test reads ball.radius first: AttributeError if `ball` is not a Ball.  If
\* its first comparison holds it reads platform.width: AttributeError if
\* `platform` is not a Platform; if not, the test is false with the width
\* not read.
BallPlatform(self, other, ball, platform) ==
    IF ~HasRadius(ball)
    THEN Raised(self, other)
    ELSE IF ~HasSize(platform)
    THEN IF PlatformLeftOf(ball, platform) THEN Raised(self, other)
         ELSE NoContact(self, other)
    ELSE IF PlatformContact(ball, platform)
    THEN [ret |-> TRUE, raised |-> FALSE,
          self |-> IF IsBall(self) THEN PlatformBounce(ball, platform) ELSE self,
          other |-> IF IsBall(self) THEN other ELSE PlatformBounce(ball, platform),
          sounds |-> <<>>]
    ELSE NoContact(self, other)

\* Body.collide_body: [ret, raised, self, other, sounds].  time_step is not
\* read.
collide_body(self, other, time_step) ==
    IF IsBall(self) /\ IsBall(other)
    THEN IF Overlap(self, other) THEN BallBall(self, other) ELSE NoContact(self, other)
    ELSE BallPlatform(self, other, BallOf(self, other), PlatformOf(self, other))

\* The centers and radii of a pair of balls, and whether any is not held
\* exactly or rounded.
PairOperands(self, other) ==
    <<self.pos[1], self.pos[2], other.pos[1], other.pos[2], self.radius, other.radius>>

PairOff(self, other) ==
    \/ \E k \in 1..2 : PosOff(self, k) \/ PosOff(other, k)
    \/ ~Dyadic(self.radius) \/ ~Dyadic(other.radius)

PairRounded(self, other) ==
    \E k \in 1..2 : self.rounded.pos[k] \/ other.rounded.pos[k]

\* The overlap test of two balls is decided by rounding: they are tangent,
\* or within the margin of it, and a center or radius is not held exactly.
TangentRounded(self, other) ==
    Close(distance_to(self.pos, other.pos), Add(self.radius, other.radius),
          PairOperands(self, other), PairOff(self, other), PairRounded(self, other))

\* The contact normal is decided by rounding: the centers, not held exactly,
\* are so near each other that other.pos - self.pos, or the 1e-9 it is
\* divided by, is less than about a thousandth (2^-10) of them (as where
\* they coincide in the reals and differ in the floats).
CentersRounded(self, other) ==
    /\ \E k \in 1..2 : PosOff(self, k) \/ PosOff(other, k)
    /\ Overlap(self, other)
    /\ Within(MaxQ(distance_to(self.pos, other.pos), Eps),
              Scale(<<self.pos[1], self.pos[2], other.pos[1], other.pos[2]>>,
                    PairRounded(self, other)),
              10)

\* A test of the Ball - Platform branch is decided by rounding: the ball
\* stands on, or within the margin of, a threshold and the ball's position
\* or the threshold (a sum or difference of the platform's position, its
\* size and the radius) is not held exactly; or vel.y is a rounded 0.
PlatformRounded(ball, platform) ==
    \/ \E k \in 1..2 :
          \E size \in {IF k = 1 THEN platform.width ELSE platform.height} :
             \/ Close(ball.pos[k], Sub(platform.pos[k], ball.radius),
                      <<ball.pos[k], platform.pos[k], ball.radius>>,
                      PosOff(ball, k) \/ ~Dyadic(platform.pos[k]) \/ ~Dyadic(ball.radius),
                      ball.rounded.pos[k])
             \/ Close(ball.pos[k], Add(Add(platform.pos[k], size), ball.radius),
                      <<ball.pos[k], platform.pos[k], size, ball.radius>>,
                      \/ PosOff(ball, k) \/ ~Dyadic(platform.pos[k])
                      \/ ~Dyadic(size) \/ ~Dyadic(ball.radius),
                      ball.rounded.pos[k])
    \/ Close(ball.vel[2], Zero, <<ball.vel[2]>>, VelOff(ball, 2), ball.rounded.vel[2])

\* The one comparison made against a `platform` that is no Platform is
\* decided by rounding.
PlatformLeftRounded(ball, platform) ==
    Close(ball.pos[1], Sub(platform.pos[1], ball.radius),
          <<ball.pos[1], platform.pos[1], ball.radius>>,
          PosOff(ball, 1) \/ PosOff(platform, 1) \/ ~Dyadic(ball.radius),
          ball.rounded.pos[1] \/ platform.rounded.pos[1])

\* The tests the else branch makes, if any, come out the same in floats as
\* in the reals.
BallPlatformExact(ball, platform) ==
    IF ~HasRadius(ball) THEN TRUE
    ELSE IF ~HasSize(platform) THEN ~PlatformLeftRounded(ball, platform)
    ELSE ~PlatformRounded(ball, platform)

\* Every square root collide_body takes of this pair is rational, and each
\* of its tests comes out the same in floats as in the reals.
collide_body_exact(self, other) ==
    IF IsBall(self) /\ IsBall(other)
    THEN /\ LengthExact(VSub(other.pos, self.pos))
         /\ ~TangentRounded(self, other)
         /\ ~CentersRounded(self, other)
    ELSE BallPlatformExact(BallOf(self, other), PlatformOf(self, other))

\* ------------------------------------------------------------ physics_step

\* The accumulator of a step: the bodies, Body.collision_count, the
\* observer's calls, and what the step did so far (the number of
\* collide_walls calls that returned True, of walls touched, of collide_body
\* calls that returned True; whether a call raised; whether every root taken
\* was rational and every test came out as in the reals).
StepStart(bodies, collision_count) ==
    [bodies |-> bodies, collision_count |-> collision_count, sounds |-> <<>>,
     wall_hits |-> 0, wall_contacts |-> 0, pair_hits |-> 0,
     raised |-> FALSE, exact |-> TRUE]

\* "apply velocities": every non-fixed body, in order.
VelPass(w, time_step) ==
    [w EXCEPT !.bodies =
        [i \in 1..Len(w.bodies) |->
            IF w.bodies[i].fixed THEN w.bodies[i]
            ELSE apply_vel(w.bodies[i], time_step)]]

\* A slip in the wall pass: the counter grows by the walls touched.
WallApply_PerWall(w, i, ok, r) ==
    IF ~ok THEN [w EXCEPT !.exact = FALSE]
    ELSE [w EXCEPT
            !.bodies[i] = r.self,
            !.sounds = w.sounds \o r.sounds,
            !.collision_count = @ + r.contacts,
            !.wall_hits = IF r.ret THEN @ + 1 ELSE @,
            !.wall_contacts = @ + r.contacts]

\* The result r of collide_walls on body i, taken into the step.
WallApply(w, i, ok, r) ==
    IF ~ok THEN [w EXCEPT !.exact = FALSE]
    ELSE [w EXCEPT
            !.bodies[i] = r.self,
            !.sounds = w.sounds \o r.sounds,
            !.collision_count = IF r.ret THEN @ + 1 ELSE @,
            !.wall_hits = IF r.ret THEN @ + 1 ELSE @,
            !.wall_contacts = @ + r.contacts]

WallCall(w, i, b, room_width, room_height, g) ==
    WallApply(w, i,
              /\ apply_gravity_exact(w.bodies[i])
              /\ collide_walls_exact(b, room_width, room_height, g),
              collide_walls(b, room_width, room_height, g))

\* Line 175 on a body that is no Ball: Body.collide_walls takes
\* (room_width, room_height), and the call with g raises TypeError, after
\* apply_gravity has acted on the body.
WallRaise(w, i, b) == [w EXCEPT !.bodies[i] = b, !.raised = TRUE]

\* "gravity and wall collisions" of body i.
WallStep(w, i, room_width, room_height, g, time_step) ==
    IF w.bodies[i].fixed THEN w
    ELSE IF ~IsBall(w.bodies[i])
    THEN WallRaise(w, i, apply_gravity(w.bodies[i], g, time_step))
    ELSE WallCall(w, i, apply_gravity(w.bodies[i], g, time_step),
                  room_width, room_height, g)

\* The bodies in order; an exception ends the step where it is raised.
RECURSIVE WallPass(_, _, _, _, _, _)
WallPass(w, i, room_width, room_height, g, time_step) ==
    IF i > Len(w.bodies) \/ w.raised \/ ~w.exact THEN w
    ELSE WallPass(WallStep(w, i, room_width, room_height, g, time_step),
                  i + 1, room_width, room_height, g, time_step)

\* itertools.combinations(range(1, n + 1), 2), from the pair <<i, j>> on.
RECURSIVE CombinationsFrom(_, _, _)
CombinationsFrom(i, j, n) ==
    IF i >= n THEN <<>>
    ELSE IF j > n THEN CombinationsFrom(i + 1, i + 2, n)
    ELSE <<<<i, j>>>> \o CombinationsFrom(i, j + 1, n)

Combinations2(n) == CombinationsFrom(1, 2, n)

\* The result r of collide_body on a pair, taken into the step.
PairApply(w, pair, ok, r) ==
    IF ~ok THEN [w EXCEPT !.exact = FALSE]
    ELSE IF r.raised THEN [w EXCEPT !.raised = TRUE]
    ELSE [w EXCEPT
            !.bodies[pair[1]] = r.self,
            !.bodies[pair[2]] = r.other,
            !.sounds = w.sounds \o r.sounds,
            !.collision_count = IF r.ret THEN @ + 1 ELSE @,
            !.pair_hits = IF r.ret THEN @ + 1 ELSE @]

\* "body - body collisions" of one pair.
PairStep(w, pair, time_step) ==
    PairApply(w, pair,
              collide_body_exact(w.bodies[pair[1]], w.bodies[pair[2]]),
              collide_body(w.bodies[pair[1]], w.bodies[pair[2]], time_step))

\* The pairs in order; an exception ends the step where it is raised.
RECURSIVE PairPass(_, _, _, _)
PairPass(w, pairs, k, time_step) ==
    IF k > Len(pairs) \/ w.raised \/ ~w.exact THEN w
    ELSE PairPass(PairStep(w, pairs[k], time_step), pairs, k + 1, time_step)

\* Simulation.physics_step.
physics_step(bodies, room_width, room_height, g, collision_count, time_step) ==
    PairPass(WallPass(VelPass(StepStart(bodies, collision_count), time_step),
                      1, room_width, room_height, g, time_step),
             Combinations2(Len(bodies)), 1, time_step)

\* ------------------------------------------------------------ state

VARIABLES
    bodies,           \* Simulation.bodies: a sequence of body records
    room_width,       \* Simulation.room_width
    room_height,      \* Simulation.room_height
    g,                \* Simulation.g
    collision_count,  \* Body.collision_count
    steps,            \* the number of calls made so far
    last              \* the last call: what it was given and what it returned

vars == <<bodies, room_width, room_height, g, collision_count, steps, last>>

\* ------------------------------------------------------------ bounds and inputs

MaxSteps == 2
MaxCalls == 2
MaxHalf == 3

Half == Q(1, 2)

\* get_simulation's room.
RoomWidth == 8
RoomHeight == 6

\* main's simulation rate: 600 physics steps a second, at time scale 1.0.
sim_frame_rate == 600
sim_time_scale == One
sim_time_step == Q(1, sim_frame_rate)

\* The time step main passes to physics_step: sim_time_step * sim_time_scale.
TimeSteps == {Mul(sim_time_step, sim_time_scale)}

\* No call yet.  `before` is, in a sequence of collide_body calls, the call
\* made before the last one: what it was given and what it returned.
NoCallBefore == [op |-> "none", args |-> <<>>, pre |-> <<>>, ret |-> FALSE]

NoCall ==
    [op |-> "none", args |-> <<>>, pre |-> <<>>, time_step |-> Zero,
     ret |-> FALSE, raised |-> FALSE, sounds |-> <<>>,
     wall_hits |-> 0, wall_contacts |-> 0, pair_hits |-> 0, count_before |-> 0,
     before |-> NoCallBefore]

\* ------------------------------------------------------------ the simulation

SimVels ==
    {V2(Zero, Zero), V2(I(-1), Zero), V2(One, Zero), V2(Zero, I(-1)), V2(I(-3), I(-4))}

\* Where the second ball starts, from the first.
SimOffsets == {V2(One, Zero), V2(Q(3, 2), Zero), V2(Zero, Q(3, 2)), V2(Q(3, 2), Two)}

SimElasticities == {None, Half}

\* The platform of get_simulation (commented out there).
SimPlatform == Platform(V2(One, One), <<Two, Half>>, None)

\* A body of the base class, which is neither a Ball nor a Platform.
SimBody == Body(V2(One, One), V2(I(3), I(-4)), One, Half)

InRoom(b, w) ==
    /\ Le(b.radius, b.pos[1])
    /\ Le(b.pos[1], Sub(w, b.radius))
    /\ Le(b.radius, b.pos[2])

Balls(bs) == {i \in 1..Len(bs) : IsBall(bs[i])}

AllInRoom(bs, w) == \A i \in Balls(bs) : InRoom(bs[i], w)

NoOverlap(bs) ==
    \A i, j \in Balls(bs) : i < j =>
        /\ LengthExact(VSub(bs[j].pos, bs[i].pos))
        /\ ~Overlap(bs[i], bs[j])

\* Two balls of radius 1/2 inside the room, apart, alone, with the platform
\* after them or with a plain body between them; Simulation.__init__ sets g
\* to 0.
InitSim ==
    /\ room_width = I(RoomWidth)
    /\ room_height = I(RoomHeight)
    /\ g = Zero
    /\ collision_count = 0
    /\ steps = 0
    /\ last = NoCall
    /\ \E a \in 1..MaxHalf, b \in 1..2, off \in SimOffsets, v1, v2 \in SimVels,
          m2 \in {1, 3}, e \in SimElasticities, extra \in {"none", "Platform", "Body"} :
          LET b1 == Ball(V2(Q(a, 2), Q(b, 2)), v1, One, Half, e)
              b2 == Ball(VAdd(b1.pos, off), v2, I(m2), Half, e)
          IN  /\ AllInRoom(<<b1, b2>>, room_width)
              /\ NoOverlap(<<b1, b2>>)
              /\ bodies = IF extra = "Platform" THEN <<b1, b2, SimPlatform>>
                          ELSE IF extra = "Body" THEN <<b1, SimBody, b2>>
                          ELSE <<b1, b2>>

\* The driver calls sim.physics_step(time_step).
PhysicsStep ==
    /\ steps < MaxSteps
    /\ ~last.raised
    /\ \E dt \in TimeSteps :
          \E w \in {physics_step(bodies, room_width, room_height, g, collision_count, dt)} :
              /\ w.exact
              /\ bodies' = w.bodies
              /\ collision_count' = w.collision_count
              /\ last' = [NoCall EXCEPT
                            !.op = "physics_step", !.pre = bodies, !.time_step = dt,
                            !.raised = w.raised, !.sounds = w.sounds,
                            !.wall_hits = w.wall_hits, !.wall_contacts = w.wall_contacts,
                            !.pair_hits = w.pair_hits, !.count_before = collision_count]
    /\ steps' = steps + 1
    /\ UNCHANGED <<room_width, room_height, g>>

Next == PhysicsStep

Spec == InitSim /\ [][Next]_vars

\* ------------------------------------------------------------ a pair of bodies

PairVels ==
    {V2(Zero, Zero), V2(One, Zero), V2(I(-1), Zero), V2(I(3), I(4)), V2(I(-2), One)}

\* Where the second ball is, from the first: on it, overlapping, tangent, apart.
PairOffsets ==
    {V2(Zero, Zero), V2(Half, Zero), V2(I(-1), Zero), V2(Zero, Q(3, 2)),
     V2(Q(3, 8), Half), V2(Two, Zero), V2(Q(3, 2), Two)}

PairElasticities == {None, Zero, Half}

PairRadii == {Half, One}

\* Half a nanometre: less than the 1e-9 the distance is clamped to.
Nano == Q(1, 2000000000)

InitPairCommon ==
    /\ room_width = I(RoomWidth)
    /\ room_height = I(RoomHeight)
    /\ g = Zero
    /\ collision_count = 0
    /\ steps = 0
    /\ last = NoCall

\* Two balls.
InitBallBall ==
    \E off \in PairOffsets, r1, r2 \in PairRadii, v1, v2 \in PairVels,
       m1, m2 \in {1, 3}, e1, e2 \in PairElasticities :
        bodies = <<Ball(V2(Two, Two), v1, I(m1), r1, e1),
                   Ball(VAdd(V2(Two, Two), off), v2, I(m2), r2, e2)>>

\* Two balls of equal mass whose centers are half a nanometre apart.
InitBallBallNano ==
    \E off \in {V2(Nano, Zero), V2(Zero, Nano)}, v1, v2 \in PairVels,
       m \in {1, 3}, e1, e2 \in PairElasticities :
        bodies = <<Ball(V2(Zero, Zero), v1, I(m), Mul(Two, Nano), e1),
                   Ball(off, v2, I(m), Mul(I(3), Nano), e2)>>

\* A ball and the platform.
InitBallPlatform ==
    \E a \in {1, 2, 4, 7}, b \in {1, 2, 3, 4, 5}, v \in {V2(Zero, Zero), V2(Zero, One), V2(Zero, I(-1)), V2(One, I(-2))},
       e \in PairElasticities :
        bodies = <<Ball(V2(Q(a, 2), Q(b, 2)), v, One, Half, e), SimPlatform>>

\* Two platforms.
InitPlatforms ==
    bodies = <<SimPlatform, Platform(V2(Two, One), <<One, One>>, None)>>

\* Two overlapping balls over the platform.
InitBallsPlatform ==
    \E off \in {V2(Half, Zero), V2(Q(3, 8), Half)}, v1, v2 \in PairVels,
       m2 \in {1, 3}, e1, e2 \in {None, Half} :
        bodies = <<Ball(V2(Two, One), v1, One, Half, e1),
                   Ball(VAdd(V2(Two, One), off), v2, I(m2), Half, e2),
                   SimPlatform>>

\* A ball left of, on the threshold of, and right of a plain body, and the
\* platform.
InitBallBody ==
    \E a \in {0, 1, 2, 4}, v \in {V2(Zero, Zero), V2(Zero, I(-1))}, e \in {None, Half} :
        bodies = <<Ball(V2(Q(a, 2), One), v, One, Half, e), SimBody, SimPlatform>>

InitPair ==
    /\ InitPairCommon
    /\ \/ InitBallBall
       \/ InitBallBallNano
       \/ InitBallPlatform
       \/ InitPlatforms
       \/ InitBallsPlatform
       \/ InitBallBody

\* bodies[i].collide_body(bodies[j], time_step).
CollideBody ==
    /\ steps < MaxCalls
    /\ ~last.raised
    /\ \E i, j \in 1..Len(bodies), dt \in TimeSteps :
          /\ i # j
          /\ collide_body_exact(bodies[i], bodies[j])
          /\ \E r \in {collide_body(bodies[i], bodies[j], dt)} :
                /\ bodies' = [bodies EXCEPT ![i] = r.self, ![j] = r.other]
                /\ last' = [NoCall EXCEPT
                              !.op = "collide_body", !.args = <<i, j>>, !.pre = bodies,
                              !.time_step = dt, !.ret = r.ret, !.raised = r.raised,
                              !.sounds = r.sounds,
                              !.before = [op |-> last.op, args |-> last.args,
                                          pre |-> last.pre, ret |-> last.ret]]
    /\ steps' = steps + 1
    /\ UNCHANGED <<room_width, room_height, g, collision_count>>

NextPair == CollideBody

SpecPair == InitPair /\ [][NextPair]_vars

\* ------------------------------------------------------------ a ball and the walls

WallVels ==
    {V2(Zero, Zero), V2(I(3), Zero), V2(I(-3), I(-4)), V2(I(3), I(-4)),
     V2(Zero, I(-2)), V2(Zero, I(-3)), V2(Zero, I(-4)), V2(I(3), I(4))}

WallElasticities == {None, Zero, Half, Q(-1, 2)}

\* What else is in the room: nothing, the platform, a plain body.
WallExtras == {<<>>, <<SimPlatform>>, <<SimBody>>}

\* One ball anywhere about the room, in a room of width 8, 1 or 4.1, under
\* gravity 0 or 4; in the room of width 8, a ball of radius 1/2 in its
\* middle also with the platform or a plain body.
InitWalls ==
    /\ room_width \in {I(RoomWidth), One, Q(41, 10)}
    /\ room_height = I(RoomHeight)
    /\ g \in {Zero, I(4)}
    /\ collision_count = 0
    /\ steps = 0
    /\ last = NoCall
    /\ \E r \in {Half, One, Q(1, 10)}, px \in {Zero, Half, I(4), Q(15, 2), I(8)},
          py \in {Q(-1, 2), Zero, Q(1, 10), Half, One, Two}, v \in WallVels,
          e \in WallElasticities, extra \in WallExtras :
          /\ extra # <<>> => (r = Half /\ px = I(4) /\ room_width = I(RoomWidth))
          /\ bodies = <<Ball(V2(px, py), v, One, r, e)>> \o extra

\* The time steps apply_gravity is called with here: main's, and two coarse
\* ones under which a falling ball reaches the floor within a call.
GravitySteps == TimeSteps \cup {Half, One}

\* bodies[i].apply_gravity(g, time_step).
ApplyGravity ==
    /\ steps < MaxCalls
    /\ ~last.raised
    /\ \E i \in 1..Len(bodies), dt \in GravitySteps :
          /\ apply_gravity_exact(bodies[i])
          /\ bodies' = [bodies EXCEPT ![i] = apply_gravity(bodies[i], g, dt)]
          /\ last' = [NoCall EXCEPT !.op = "apply_gravity", !.args = <<i>>,
                                    !.pre = bodies, !.time_step = dt]
    /\ steps' = steps + 1
    /\ UNCHANGED <<room_width, room_height, g, collision_count>>

\* bodies[i].collide_walls(room_width, room_height, g), the call of line 175.
\* On a body that is no Ball it raises TypeError (Body.collide_walls takes
\* two arguments) and nothing is changed.
CollideWalls ==
    /\ steps < MaxCalls
    /\ ~last.raised
    /\ \E i \in 1..Len(bodies) :
          IF IsBall(bodies[i])
          THEN /\ collide_walls_exact(bodies[i], room_width, room_height, g)
               /\ \E r \in {collide_walls(bodies[i], room_width, room_height, g)} :
                     /\ bodies' = [bodies EXCEPT ![i] = r.self]
                     /\ last' = [NoCall EXCEPT
                                   !.op = "collide_walls", !.args = <<i>>,
                                   !.pre = bodies, !.ret = r.ret, !.sounds = r.sounds,
                                   !.wall_contacts = r.contacts]
          ELSE /\ bodies' = bodies
               /\ last' = [NoCall EXCEPT !.op = "collide_walls", !.args = <<i>>,
                                         !.pre = bodies, !.raised = TRUE]
    /\ steps' = steps + 1
    /\ UNCHANGED <<room_width, room_height, g, collision_count>>

NextWalls == ApplyGravity \/ CollideWalls

SpecWalls == InitWalls /\ [][NextWalls]_vars

\* ------------------------------------------------------------ claims

PreSelf == last.pre[last.args[1]]
PreOther == last.pre[last.args[2]]

\* The last call was bodies[i].collide_body(bodies[j]) on two balls.
BallBallCall ==
    /\ last.op = "collide_body"
    /\ IsBall(PreSelf)
    /\ IsBall(PreOther)
PostSelf == bodies[last.args[1]]
PostOther == bodies[last.args[2]]

\* a and b are two balls, or a ball and a platform in either order.
BallAmong(a, b) ==
    \/ IsBall(a) /\ (IsBall(b) \/ IsPlatform(b))
    \/ IsPlatform(a) /\ IsBall(b)

\* C1: collide_body is symmetric.  After bodies[i].collide_body(bodies[j])
\* on a Ball - Ball or Ball - Platform pair, the return value and the two
\* bodies are what bodies[j].collide_body(bodies[i]) gives from the same
\* starting state.
C1_Symmetric ==
    (last.op = "collide_body" /\ BallAmong(PreSelf, PreOther)) =>
        \E r \in {collide_body(PreOther, PreSelf, last.time_step)} :
            /\ ~last.raised
            /\ ~r.raised
            /\ last.ret = r.ret
            /\ PostSelf = r.other
            /\ PostOther = r.self

\* C1's case: a resolved collision of two balls of different mass and
\* elasticity, and after it a resolved contact of the platform and a ball,
\* called on the platform, that moved the ball and turned it back.
C1_Witness ==
    /\ last.op = "collide_body"
    /\ IsPlatform(PreSelf) /\ IsBall(PreOther)
    /\ last.ret
    /\ PostOther.vel # PreOther.vel
    /\ PostOther.pos # PreOther.pos
    /\ last.before.op = "collide_body"
    /\ last.before.ret
    /\ \E a \in {last.before.pre[last.before.args[1]]},
          b \in {last.before.pre[last.before.args[2]]} :
          /\ IsBall(a) /\ IsBall(b)
          /\ a.mass # b.mass
          /\ a.elasticity # b.elasticity
          /\ last.pre[last.before.args[1]].vel # a.vel
          /\ last.pre[last.before.args[1]].pos # a.pos

\* C2: after a resolved Ball - Ball collision the distance of the two
\* centers is r1 + r2, for every overlapping pair of balls.
C2_Tangent ==
    (BallBallCall /\ last.ret) =>
        distance_to(PostSelf.pos, PostOther.pos) = Add(PreSelf.radius, PreOther.radius)

\* C3: collide_body on two balls at the same position divides by nothing
\* that is zero, and moves the two centers apart.
C3_Coincident ==
    (BallBallCall /\ PreSelf.pos = PreOther.pos) =>
        /\ ~last.raised
        /\ MaxQ(distance_to(PreSelf.pos, PreOther.pos), Eps) # Zero
        /\ Add(PreSelf.mass, PreOther.mass) # Zero
        /\ PostSelf.pos # PostOther.pos

Cross(u, v) == Sub(Mul(u[1], v[2]), Mul(u[2], v[1]))

\* The velocities of a and b lie along the line through their centers.
HeadOn(a, b) ==
    /\ a.pos # b.pos
    /\ Cross(a.vel, VSub(b.pos, a.pos)) = Zero
    /\ Cross(b.vel, VSub(b.pos, a.pos)) = Zero

\* C4: two overlapping balls of equal mass and elasticity 1, head-on: each
\* ball leaves with the velocity the other had.
C4_Swap ==
    (/\ BallBallCall
     /\ last.ret
     /\ PreSelf.mass = PreOther.mass
     /\ PreSelf.elasticity = One
     /\ PreOther.elasticity = One
     /\ HeadOn(PreSelf, PreOther)) =>
        /\ PostSelf.vel = PreOther.vel
        /\ PostOther.vel = PreSelf.vel

\* b is a ball as Ball(pos, vel, mass, radius, elasticity = e) creates it.
CreatedWith(b, e) == b = Ball(b.pos, b.vel, b.mass, b.radius, e)

\* C5: two overlapping balls both created with elasticity 0: after
\* collide_body the relative velocity along the contact normal is zero.
C5_Inelastic ==
    (/\ BallBallCall
     /\ last.ret
     /\ CreatedWith(PreSelf, Zero)
     /\ CreatedWith(PreOther, Zero)) =>
        Dot(VSub(PostSelf.vel, PostOther.vel),
            ContactNormal(PreSelf, PreOther,
                          distance_to(PreSelf.pos, PreOther.pos))) = Zero

\* The last call was collide_walls on a ball.
WallsCall == last.op = "collide_walls" /\ IsBall(PreSelf)

\* C6: for a ball with elasticity >= 0 in a room with room_width >=
\* 2 * radius, after collide_walls radius <= pos.x <= room_width - radius,
\* and when the floor branch fired pos.y = radius and vel.y >= 0.
C6_Contained ==
    (/\ WallsCall
     /\ Ge(PreSelf.elasticity, Zero)
     /\ Ge(room_width, Mul(Two, PreSelf.radius))) =>
        /\ Le(PostSelf.radius, PostSelf.pos[1])
        /\ Le(PostSelf.pos[1], Sub(room_width, PostSelf.radius))
        /\ FloorHit(PreSelf) =>
              /\ PostSelf.pos[2] = PostSelf.radius
              /\ Ge(PostSelf.vel[2], Zero)

\* C6's case: a ball beyond the right wall and below the floor, falling
\* under gravity, bounced back by collide_walls.
C6_Witness ==
    /\ WallsCall
    /\ room_width = I(RoomWidth)
    /\ Ge(PreSelf.elasticity, Zero)
    /\ Ge(room_width, Mul(Two, PreSelf.radius))
    /\ g # Zero
    /\ FloorHit(PreSelf)
    /\ HitRight(PreSelf, room_width)
    /\ Gt(PostSelf.vel[2], Zero)

StepCall == last.op = "physics_step" /\ ~last.raised

\* C7 as claimed: in every physics_step the counter grows by the number of
\* contacts resolved, each wall touched (left, right, floor) and each
\* resolved pair counting as one.
C7_PerContact ==
    StepCall =>
        collision_count = last.count_before + last.wall_contacts + last.pair_hits

\* The balls of the step's starting state whose collide_walls call returns
\* True (the wall pass treats each body on its own).
WallHitters(pre, time_step) ==
    {i \in 1..Len(pre) :
        /\ ~pre[i].fixed
        /\ IsBall(pre[i])
        /\ collide_walls(apply_gravity(apply_vel(pre[i], time_step), g, time_step),
                         room_width, room_height, g).ret}

\* C7 as amended: in every physics_step the counter grows by the number of
\* collide_walls calls that returned True (a ball that touches a side wall
\* and the floor in one call counts once) plus the number of collide_body
\* calls that returned True; it never decreases, and a step with neither
\* leaves it unchanged.
C7_PerCall ==
    StepCall =>
        /\ collision_count = last.count_before
              + Cardinality(WallHitters(last.pre, last.time_step)) + last.pair_hits
        /\ collision_count >= last.count_before
        /\ (last.wall_contacts = 0 /\ last.pair_hits = 0) =>
              collision_count = last.count_before

\* C7's case: a step in which a ball touched a side wall and the floor in
\* one collide_walls call, and a pair collided.
C7_Witness ==
    /\ StepCall
    /\ last.wall_contacts > last.wall_hits
    /\ last.pair_hits > 0
    /\ collision_count > last.count_before

\* C8: a call of collide_walls or collide_body in which a contact occurred
\* calls play_collision_sound exactly once, with a magnitude >= 0; a call
\* without contact never.
C8_NotifiedOnce ==
    (last.op \in {"collide_walls", "collide_body"} /\ ~last.raised) =>
        /\ last.ret => (Len(last.sounds) = 1 /\ Ge(last.sounds[1], Zero))
        /\ ~last.ret => Len(last.sounds) = 0

\* A ball at rest on the floor, between the side walls.
AtRest(b, w) ==
    /\ b.pos[2] = b.radius
    /\ b.vel[2] = Zero
    /\ Le(b.radius, b.pos[1])
    /\ Le(b.pos[1], Sub(w, b.radius))

\* C9: with gravity 0, apply_gravity and collide_walls leave a ball at rest
\* on the floor as it was, and collide_walls returns False; the state after
\* being the state before, so it is after any number of calls.
C9_RestFixed ==
    (/\ last.op \in {"apply_gravity", "collide_walls"}
     /\ IsBall(PreSelf)
     /\ g = Zero
     /\ AtRest(PreSelf, room_width)) =>
        /\ bodies = last.pre
        /\ ~last.ret
        /\ Len(last.sounds) = 0

\* C9's case: the second of two calls on a ball at rest, a collide_walls.
C9_Witness ==
    /\ steps >= 2
    /\ room_width = I(RoomWidth)
    /\ WallsCall
    /\ g = Zero
    /\ AtRest(PreSelf, room_width)
    /\ PreSelf.vel[1] # Zero

\* C10: from a state with every ball inside the room and no two balls
\* overlapping, every ball is inside the room after every physics_step.
C10_StaysInRoom ==
    (steps >= 1 /\ StepCall) => AllInRoom(bodies, room_width)

====
